---- MODULE Spec2Model ----
(***************************************************************************)
(* deepKNet data generation and training.                                  *)
(*                                                                         *)
(* SpecXrd: the XRD stage (data_gen/compute_xrd.py).  main reads the       *)
(* catalog, writes a header to the intermediate file, splits the catalog   *)
(* into n_slices macro-chunks and, for each macro-chunk, fans nworkers     *)
(* micro-chunks out to a process pool, joins them and appends the          *)
(* concatenated rows to the intermediate file.                             *)
(*                                                                         *)
(* SpecGen: the point-cloud stage (gen_data/gen_training.py).  main asks   *)
(* for confirmation, clears the two destination directories, reads the     *)
(* intermediate file and maps its rows over a pool of 12 workers; each     *)
(* worker checks that the row's features file does not exist, encodes the  *)
(* row and writes the features file and the targets file.                  *)
(*                                                                         *)
(* SpecEnc: the encoder of generate_point_cloud applied to one row.        *)
(*                                                                         *)
(* SpecGenAny: the point-cloud stage with any number of workers.           *)
(*                                                                         *)
(* SpecRun: the runs of both data-generation programs, with fairness.      *)
(*                                                                         *)
(* SpecNorm: the target Normalizer of the training program (main.py).      *)
(*                                                                         *)
(* SpecTrain: the epoch loop of main.py with its checkpoint files.         *)
(*                                                                         *)
(* The programs are separate processes; each specification runs one of     *)
(* them and leaves the variables of the others idle.                       *)
(***************************************************************************)
EXTENDS Integers, Sequences, FiniteSets, TLC

\* ------------------------------------------------------------------ bounds
\* largest catalog of the XRD stage
MaxRecords == 80
\* largest multiprocessing.cpu_count()
MaxCpu == 4

\* ------------------------------------------------- program constants (XRD)
\* compute_xrd.py:80  n_slices = N // (20*nworkers)
RowsPerWorkerSlice == 20
\* compute_xrd.py:79  nworkers = max(cpu_count()-2, 1)
ReservedCpus == 2

VARIABLES
    \* ---- XRD stage (compute_xrd.py main)
    x_pc,           \* position of main
    x_err,          \* how the process ended: "none" or the error raised
    catalog_exists, \* os.path.isfile("./raw_data/custom_MPdata.csv")
    MP_data,        \* the catalog rows (material ids, in file order)
    cpu_count,      \* multiprocessing.cpu_count()
    out_file,       \* ./raw_data/compute_xrd.csv: [exists, rows]
    x_nworkers,     \* main's nworkers
    n_slices,       \* main's n_slices
    MP_data_chunk,  \* the macro-chunks
    idx,            \* 1-based index of the macro-chunk being processed
    task,           \* the pool's tasks of the current macro-chunk
    finished,       \* the order in which the tasks completed
    xrd_data,       \* the rows parallel_computing returned, not yet written
    \* ---- point-cloud stage (gen_training.py main)
    g_pc,           \* position of main
    g_err,          \* how the process ended: "none" or the error raised
    inter_exists,   \* whether ./data_raw/compute_xrd.csv exists
    gen_rows,       \* the rows of ./data_raw/compute_xrd.csv
    target_dir,     \* ../data/target/: [exists, files]
    features_dir,   \* ../data/features/: [exists, files]
    gtask,          \* the pool's tasks, one per chunk
    pool_error,     \* the first exception a task raised ("none" if none)
    detected,       \* history: some worker has found an existing artifact
    writes,         \* history: feature files written in this run, per id
    \* ---- the encoder applied to one row
    e_pc,
    e_row,
    e_out,
    \* ---- the target normalizer of the training program (main.py)
    n_pc,           \* position in main and in the batch loop
    n_task,         \* args.task
    normalize_target, \* args.normalize_target
    normalizer,     \* the Normalizer object: [mean, std]
    target,         \* the target value of the batch
    target_normed,  \* normalizer.norm(target)
    n_restored,     \* normalizer.denorm applied to the normalized target
    \* ---- the training loop of the training program (main.py)
    t_pc,           \* position of main
    t_task,         \* args.task
    epochs,         \* args.epochs
    epoch,          \* the loop variable
    best_mae,       \* the global best_mae
    mae,            \* what validate returned for the epoch
    is_best,        \* main's is_best
    checkpoint_file, \* ./checkpoints/<target>_checkpoint.pth.tar
    best_file,      \* ./checkpoints/<target>_model_best.pth.tar
    best_model,     \* what load_best_model returned
    seen            \* history: the validation metric of each epoch so far

xvars == <<x_pc, x_err, catalog_exists, MP_data, cpu_count, out_file,
           x_nworkers, n_slices, MP_data_chunk, idx, task, finished, xrd_data>>

gvars == <<g_pc, g_err, inter_exists, gen_rows, target_dir, features_dir,
           gtask, pool_error, detected, writes>>

evars == <<e_pc, e_row, e_out>>

nvars == <<n_pc, n_task, normalize_target, normalizer, target, target_normed,
           n_restored>>

tvars == <<t_pc, t_task, epochs, epoch, best_mae, mae, is_best,
           checkpoint_file, best_file, best_model, seen>>

\* the variables of main.py
mvars == <<nvars, tvars>>

vars == <<xvars, gvars, evars, mvars>>

\* a directory that does not exist, and an existing empty one
NoDir == [exists |-> FALSE, files |-> <<>>]
EmptyDir == [exists |-> TRUE, files |-> <<>>]
NoTasks == <<>>
NoFrame == [channels |-> 0, points |-> 0, cols |-> <<>>]
NoRow == [material_id |-> 0, hkl_len |-> 0, runs |-> <<>>, max_r |-> 1,
          targets |-> <<>>]
EncErr(e) == [ok |-> FALSE, err |-> e, features_T |-> NoFrame]

\* each program of the repository is a process of its own: while one is
\* modelled the others are not running
XIdle ==
    /\ x_pc = "idle" /\ x_err = "none" /\ catalog_exists = FALSE
    /\ MP_data = <<>> /\ cpu_count = 1
    /\ out_file = [exists |-> FALSE, rows |-> <<>>]
    /\ x_nworkers = 0 /\ n_slices = 0 /\ MP_data_chunk = <<>> /\ idx = 1
    /\ task = NoTasks /\ finished = <<>> /\ xrd_data = <<>>

GIdle ==
    /\ g_pc = "idle" /\ g_err = "none" /\ inter_exists = FALSE
    /\ gen_rows = <<>> /\ target_dir = NoDir /\ features_dir = NoDir
    /\ gtask = NoTasks /\ pool_error = "none" /\ detected = FALSE
    /\ writes = <<>>

EIdle == e_pc = "idle" /\ e_row = NoRow /\ e_out = EncErr("none")

\* a rational number num / den; den = 0 stands for inf and nan
Rat(v) == [num |-> v, den |-> 1]

\* a checkpoint file that does not exist, and a validation metric
NoFile == [exists |-> FALSE, run |-> "none", epoch |-> 0]
Metric(v) == [nan |-> FALSE, v |-> v]

NIdle ==
    /\ n_pc = "idle" /\ n_task = "classification" /\ normalize_target = TRUE
    /\ normalizer = [mean |-> 0, std |-> 1] /\ target = 0
    /\ target_normed = Rat(0) /\ n_restored = Rat(0)

TIdle ==
    /\ t_pc = "idle" /\ t_task = "classification" /\ epochs = 0 /\ epoch = 0
    /\ best_mae = Metric(0) /\ mae = Metric(0) /\ is_best = FALSE
    /\ checkpoint_file = NoFile /\ best_file = NoFile /\ best_model = NoFile
    /\ seen = <<>>

MIdle == NIdle /\ TIdle

\* ----------------------------------------------------------------- helpers
Max2(a, b) == IF a >= b THEN a ELSE b
Min2(a, b) == IF a <= b THEN a ELSE b

\* a split into sections of n \div k rows each, the remainder left out
SectionStartEqual(n, k, i) == i * (n \div k)
\* first row index (0-based) of section i (0-based) of numpy.array_split of
\* n rows into k sections: the first n % k sections hold n \div k + 1 rows
SectionStart(n, k, i) == i * (n \div k) + Min2(i, n % k)

\* numpy.array_split(s, k) for k >= 1 (k <= 0 raises ValueError)
array_split(s, k) ==
    [i \in 1..k |->
        SubSeq(s, SectionStart(Len(s), k, i - 1) + 1, SectionStart(Len(s), k, i))]

RECURSIVE Concat(_)
\* pandas.concat(list of frames, axis=0): the frames' rows in list order
Concat(frames) ==
    IF frames = <<>> THEN <<>> ELSE Head(frames) \o Concat(Tail(frames))

\* the header row main writes, and a data row compute_xrd produces
HeaderRow == [kind |-> "header", material_id |-> 0]
DataRow(id) == [kind |-> "row", material_id |-> id]

\* compute_xrd(raw_data, wavelength): one output row per input row, in order
compute_xrd(raw_data) == [i \in 1..Len(raw_data) |-> DataRow(raw_data[i])]

\* a bug that opens the file for the header with mode 'a'
ToCsvWriteNoTruncate(file, rows) == [exists |-> TRUE, rows |-> file.rows \o rows]
\* DataFrame.to_csv(out_file, mode='w'): the file is created or truncated
ToCsvWrite(file, rows) == [exists |-> TRUE, rows |-> rows]

\* DataFrame.to_csv(out_file, mode='a')
ToCsvFlush(file, rows) == [exists |-> TRUE, rows |-> file.rows \o rows]

\* ---------------------------------------------------------- XRD stage: Init
\* what a previous run may have left in the intermediate file
StaleRows == <<HeaderRow, DataRow(0)>>

XInit ==
    /\ x_pc = "start"
    /\ x_err = "none"
    /\ catalog_exists \in BOOLEAN
    /\ \E n \in 1..MaxRecords : MP_data = [i \in 1..n |-> i]
    /\ cpu_count \in 1..MaxCpu
    /\ out_file \in {[exists |-> FALSE, rows |-> <<>>],
                     [exists |-> TRUE, rows |-> StaleRows]}
    /\ x_nworkers = 0
    /\ n_slices = 0
    /\ MP_data_chunk = <<>>
    /\ idx = 1
    /\ task = NoTasks
    /\ finished = <<>>
    /\ xrd_data = <<>>
    /\ GIdle
    /\ EIdle
    /\ MIdle

\* ------------------------------------------------------- XRD stage: actions
\* main, lines 59-64: the catalog must exist, else exit(1)
XCheckInput ==
    /\ UNCHANGED <<gvars, evars, mvars>>
    /\ x_pc = "start"
    /\ IF catalog_exists
          THEN x_pc' = "header" /\ x_err' = x_err
          ELSE x_pc' = "exited" /\ x_err' = "InputMissing"
    /\ UNCHANGED <<catalog_exists, MP_data, cpu_count, out_file, x_nworkers,
                   n_slices, MP_data_chunk, idx, task, finished, xrd_data>>

\* main, lines 66-75: the header is written with mode 'w'
XWriteHeader ==
    /\ UNCHANGED <<gvars, evars, mvars>>
    /\ x_pc = "header"
    /\ out_file' = ToCsvWrite(out_file, <<HeaderRow>>)
    /\ x_pc' = "params"
    /\ UNCHANGED <<x_err, catalog_exists, MP_data, cpu_count, x_nworkers,
                   n_slices, MP_data_chunk, idx, task, finished, xrd_data>>

\* main, lines 79-80
WorkerCount(cpus) == Max2(cpus - ReservedCpus, 1)
SliceCount(n, nw) == n \div (RowsPerWorkerSlice * nw)

\* main, lines 78-84: the parameters and the split into macro-chunks;
\* numpy.array_split raises ValueError when n_slices is 0
XSplit ==
    /\ UNCHANGED <<gvars, evars, mvars>>
    /\ x_pc = "params"
    /\ x_nworkers' = WorkerCount(cpu_count)
    /\ n_slices' = SliceCount(Len(MP_data), x_nworkers')
    /\ IF n_slices' <= 0
          THEN /\ x_pc' = "crashed"
               /\ x_err' = "ValueError"
               /\ MP_data_chunk' = MP_data_chunk
          ELSE /\ x_pc' = "loop"
               /\ x_err' = x_err
               /\ MP_data_chunk' = array_split(MP_data, n_slices')
    /\ UNCHANGED <<catalog_exists, MP_data, cpu_count, out_file, idx, task,
                   finished, xrd_data>>

\* parallel_computing, lines 49-52: a pool of nworkers processes, the chunk
\* split into nworkers micro-chunks, one task per micro-chunk
XPoolStart ==
    /\ UNCHANGED <<gvars, evars, mvars>>
    /\ x_pc = "loop"
    /\ idx <= n_slices
    /\ task' = [w \in 1..x_nworkers |->
                  [st |-> "running",
                   data |-> array_split(MP_data_chunk[idx], x_nworkers)[w],
                   result |-> <<>>]]
    /\ finished' = <<>>
    /\ x_pc' = "starmap"
    /\ UNCHANGED <<x_err, catalog_exists, MP_data, cpu_count, out_file,
                   x_nworkers, n_slices, MP_data_chunk, idx, xrd_data>>

\* a worker runs compute_xrd on its micro-chunk and returns the frame
XWorkerReturn(w) ==
    /\ UNCHANGED <<gvars, evars, mvars>>
    /\ x_pc = "starmap"
    /\ task[w].st = "running"
    /\ task' = [task EXCEPT ![w].st = "done",
                            ![w].result = compute_xrd(task[w].data)]
    /\ finished' = Append(finished, w)
    /\ UNCHANGED <<x_pc, x_err, catalog_exists, MP_data, cpu_count, out_file,
                   x_nworkers, n_slices, MP_data_chunk, idx, xrd_data>>

\* Structure.from_str or get_pattern raises on one of the worker's rows
XWorkerRaise(w) ==
    /\ UNCHANGED <<gvars, evars, mvars>>
    /\ x_pc = "starmap"
    /\ task[w].st = "running"
    /\ task[w].data # <<>>
    /\ task' = [task EXCEPT ![w].st = "failed"]
    /\ finished' = Append(finished, w)
    /\ UNCHANGED <<x_pc, x_err, catalog_exists, MP_data, cpu_count, out_file,
                   x_nworkers, n_slices, MP_data_chunk, idx, xrd_data>>

\* a bug that does not wait for the workers
StarmapReadyNoWait == TRUE
\* pool.starmap blocks until every task has completed or failed (the map
\* result is ready only once all its jobs are done, also after a failure)
StarmapReady == \A w \in DOMAIN task : task[w].st # "running"

\* a bug that takes the results as they complete
StarmapResultsUnordered == [k \in 1..Len(finished) |-> task[finished[k]].result]
\* pool.starmap returns the results in the order of the arguments
StarmapResults == [w \in 1..Len(task) |-> task[w].result]

\* parallel_computing, lines 52-55: every task succeeded; the frames are
\* concatenated, the pool is closed and joined, df_out is returned
XStarmapReturn ==
    /\ UNCHANGED <<gvars, evars, mvars>>
    /\ x_pc = "starmap"
    /\ StarmapReady
    /\ \A w \in DOMAIN task : task[w].st # "failed"
    /\ xrd_data' = Concat(StarmapResults)
    /\ task' = NoTasks
    /\ x_pc' = "flush"
    /\ UNCHANGED <<x_err, catalog_exists, MP_data, cpu_count, out_file,
                   x_nworkers, n_slices, MP_data_chunk, idx, finished>>

\* parallel_computing, line 52: a task failed; starmap re-raises its
\* exception, which main does not catch: the process ends, the pool's
\* daemonic workers with it
XStarmapRaise ==
    /\ UNCHANGED <<gvars, evars, mvars>>
    /\ x_pc = "starmap"
    /\ StarmapReady
    /\ \E w \in DOMAIN task : task[w].st = "failed"
    /\ task' = NoTasks
    /\ x_pc' = "crashed"
    /\ x_err' = "WorkerError"
    /\ UNCHANGED <<catalog_exists, MP_data, cpu_count, out_file, x_nworkers,
                   n_slices, MP_data_chunk, idx, finished, xrd_data>>

\* main, lines 88-90: the macro-chunk's rows are appended to the file
XFlush ==
    /\ UNCHANGED <<gvars, evars, mvars>>
    /\ x_pc = "flush"
    /\ out_file' = ToCsvFlush(out_file, xrd_data)
    /\ xrd_data' = <<>>
    /\ idx' = idx + 1
    /\ x_pc' = "loop"
    /\ UNCHANGED <<x_err, catalog_exists, MP_data, cpu_count, x_nworkers,
                   n_slices, MP_data_chunk, task, finished>>

\* main, line 85: the loop over the macro-chunks is exhausted
XDone ==
    /\ UNCHANGED <<gvars, evars, mvars>>
    /\ x_pc = "loop"
    /\ idx > n_slices
    /\ x_pc' = "done"
    /\ UNCHANGED <<x_err, catalog_exists, MP_data, cpu_count, out_file,
                   x_nworkers, n_slices, MP_data_chunk, idx, task, finished,
                   xrd_data>>

XNext ==
    \/ XCheckInput
    \/ XWriteHeader
    \/ XSplit
    \/ XPoolStart
    \/ \E w \in DOMAIN task : XWorkerReturn(w)
    \/ \E w \in DOMAIN task : XWorkerRaise(w)
    \/ XStarmapReturn
    \/ XStarmapRaise
    \/ XFlush
    \/ XDone

\* ------------------------------------------------ XRD stage: the claims
\* the material ids of the data rows of the intermediate file, in file order
AppendedIds == [i \in 1..(Len(out_file.rows) - 1) |-> out_file.rows[i + 1].material_id]

IsPrefix(s, t) == Len(s) <= Len(t) /\ SubSeq(t, 1, Len(s)) = s

\* the number of catalog rows in the macro-chunks before chunk number idx
RowsOfCompletedChunks ==
    IF n_slices >= 1 THEN SectionStart(Len(MP_data), n_slices, idx - 1) ELSE 0

\* C1: order preservation. Once the header is written the ids of the rows
\* appended so far are a prefix of the catalog's ids, and when the run
\* completes they are the catalog's ids: nothing lost, duplicated or
\* reordered, whatever the order in which the workers finished.
C1_OrderPreserved ==
    /\ x_pc \in {"params", "loop", "starmap", "flush", "done", "crashed"}
          => IsPrefix(AppendedIds, MP_data)
    /\ x_pc = "done" => AppendedIds = MP_data

\* C1 witness: a completed run of two macro-chunks on two workers, which
\* finished the last chunk in reverse order
C1_Witness ==
    /\ x_pc = "done"
    /\ n_slices = 2
    /\ x_nworkers = 2
    /\ finished = <<2, 1>>
    /\ AppendedIds = MP_data

\* C6 (as claimed): the worker count and the slice count are at least 1
\* once computed, and the splitting step raises no error.
C6_Claim ==
    /\ x_pc \in {"loop", "starmap", "flush", "done", "crashed"}
          => x_nworkers >= 1 /\ n_slices >= 1
    /\ x_err # "ValueError"

\* C8: content of the intermediate file. After the header is written the
\* file is exactly one header row followed by the rows of the macro-chunks
\* 1..idx-1 in catalog order, also after a worker error in chunk idx; and
\* every step leaves the rows already written in place.
C8_ContentInv ==
    x_pc \in {"params", "loop", "starmap", "flush", "done", "crashed"}
        => /\ out_file.exists
           /\ out_file.rows =
                 <<HeaderRow>> \o compute_xrd(SubSeq(MP_data, 1, RowsOfCompletedChunks))

C8_AppendOnly ==
    x_pc \in {"params", "loop", "starmap", "flush", "done", "crashed"}
        => IsPrefix(out_file.rows, out_file'.rows)

C8_FileContent == []C8_ContentInv /\ [][C8_AppendOnly]_vars

\* C8 witness: a worker failed in the second macro-chunk; the file holds the
\* header and the first macro-chunk
C8_Witness ==
    /\ x_pc = "crashed"
    /\ x_err = "WorkerError"
    /\ idx = 2
    /\ Len(out_file.rows) = 1 + Len(MP_data_chunk[1])

\* the rows the dispatcher holds and has not written: results of completed
\* tasks and the frame returned by parallel_computing
HeldRows ==
    Len(xrd_data) + Len(Concat([w \in 1..Len(task) |-> task[w].result]))

\* C9: macro-chunk barrier. While any task of chunk idx exists, the file
\* holds exactly the chunks before idx and nothing of chunk idx; the file
\* grows only in the flush step, by the whole chunk at once, with no task
\* left; and the unflushed rows never exceed one macro-chunk.
C9_BarrierInv ==
    /\ task # NoTasks =>
          /\ Len(out_file.rows) = 1 + RowsOfCompletedChunks
          /\ \A w \in DOMAIN task :
                task[w].data = array_split(MP_data_chunk[idx], x_nworkers)[w]
    /\ x_pc \in {"starmap", "flush"} => HeldRows <= Len(MP_data_chunk[idx])

C9_SingleFlush ==
    (x_pc \in {"loop", "starmap", "flush"} /\ out_file'.rows # out_file.rows)
        => /\ task = NoTasks /\ task' = NoTasks
           /\ out_file'.rows = out_file.rows \o compute_xrd(MP_data_chunk[idx])

C9_Barrier == []C9_BarrierInv /\ [][C9_SingleFlush]_vars

\* C9 witness: the second macro-chunk's tasks are running and the file holds
\* the header and the whole first macro-chunk
C9_Witness ==
    /\ x_pc = "starmap"
    /\ idx = 2
    /\ \E w \in DOMAIN task : task[w].st = "running"
    /\ Len(out_file.rows) = 1 + Len(MP_data_chunk[1])

SpecXrd == XInit /\ [][XNext]_vars

\* ======================================================================
\* Point-cloud stage (gen_data/gen_training.py): the feature encoder
\* ======================================================================
\* ------------------------------------------------------------------ bounds
\* how far the reflection count and the per-reflection vector length of an
\* input pattern stray from the required shape
ShapeSlack == 1
\* largest form-factor value of an input pattern
MaxFF == 2

\* ------------------------------------------ program constants (encoder)
\* gen_training.py:46  assert(features_T.shape[0] == 3+94)
SphericalChannels == 3
FormFactorChannels == 94
\* gen_training.py:47  assert(features_T.shape[1] == 512)
NPoints == 512
\* gen_training.py:43  features.iloc[:, 3:-1]
FFSliceStart == 3
FFSliceStopFromEnd == 1

\* A pattern is stored run-length encoded: runs is a sequence of
\* [n, sph, aff], n consecutive reflections with the spherical position sph
\* (recip_spherical[i]) and the form-factor vector aff (atomic_form_factor[i]).
RECURSIVE RunsTotal(_)
RunsTotal(runs) ==
    IF runs = <<>> THEN 0 ELSE Head(runs).n + RunsTotal(Tail(runs))

RECURSIVE TakeRuns(_, _)
\* the first k reflections: [... for i in range(len(hkl))]
TakeRuns(runs, k) ==
    IF k <= 0 \/ runs = <<>> THEN <<>>
    ELSE IF Head(runs).n <= k
            THEN <<Head(runs)>> \o TakeRuns(Tail(runs), k - Head(runs).n)
            ELSE <<[Head(runs) EXCEPT !.n = k]>>

\* a cell of the feature frame: the rational num/den; NaN when missing
NaN == [num |-> 0, den |-> 0]
Cell(v) == [num |-> v, den |-> 1]
\* cell / d, element-wise float division (d = 0 gives inf or nan, no error)
CellDiv(c, d) == IF c = NaN THEN NaN ELSE [num |-> c.num, den |-> c.den * d]

\* Python's a < b on lists: lexicographic, decided at the first position
\* where the lists differ, else by length
PyListLess(a, b) ==
    LET differ == {i \in 1..Min2(Len(a), Len(b)) : a[i] # b[i]}
    IN IF differ = {} THEN Len(a) < Len(b)
       ELSE LET i == CHOOSE j \in differ : \A k \in differ : j <= k
            IN a[i] < b[i]

RECURSIVE PyMaxOfLists(_)
\* Python's max() of a non-empty list of lists: the lexicographically
\* greatest list
PyMaxOfLists(ls) ==
    IF Len(ls) = 1 THEN ls[1]
    ELSE LET m == PyMaxOfLists(Tail(ls))
         IN IF PyListLess(Head(ls), m) THEN m ELSE Head(ls)

\* Python's max() of a non-empty list of numbers
PyMax(l) == CHOOSE x \in {l[i] : i \in DOMAIN l} : \A i \in DOMAIN l : l[i] <= x

\* the greatest form-factor value of the whole pattern
GlobalMaxFF(runs) ==
    PyMax([k \in 1..Len(runs) |-> PyMax(runs[k].aff)])
\* max(max(atomic_form_factor)): the greatest value of the
\* lexicographically greatest form-factor vector
FormFactorDivisor(runs) ==
    PyMax(PyMaxOfLists([k \in 1..Len(runs) |-> runs[k].aff]))

\* column c (1-based) is in the slice features.iloc[:, 3:-1]
InFFSlice(c, ncols) ==
    c - 1 >= FFSliceStart /\ c - 1 < ncols - FFSliceStopFromEnd

\* gen_training.py:46-47
ShapeAsserts(nrows, ncols) ==
    /\ nrows = SphericalChannels + FormFactorChannels
    /\ ncols = NPoints

\* generate_point_cloud, lines 32-47, for one row of the intermediate file:
\* the feature frame, normalized and transposed, or the error raised
Encode(row) ==
    LET n == row.hkl_len
    IN IF RunsTotal(row.runs) < n THEN EncErr("IndexError")
       ELSE
       LET rows == TakeRuns(row.runs, n)
           vec(k) == rows[k].sph \o rows[k].aff
           \* pandas.DataFrame(list of lists): as many columns as the
           \* longest row, shorter rows filled with NaN
           ncols == IF rows = <<>> THEN 0
                    ELSE PyMax([k \in 1..Len(rows) |-> Len(vec(k))])
           raw(k, c) == IF c <= Len(vec(k)) THEN Cell(vec(k)[c]) ELSE NaN
       IN IF ncols = 0 THEN EncErr("IndexError")
          ELSE IF \E k \in 1..Len(row.runs) : row.runs[k].aff = <<>>
                  THEN EncErr("ValueError")
          ELSE
          LET divisor == FormFactorDivisor(row.runs)
              norm(k, c) ==
                  IF c = 1 THEN CellDiv(raw(k, c), row.max_r)
                  ELSE IF InFFSlice(c, ncols) THEN CellDiv(raw(k, c), divisor)
                  ELSE raw(k, c)
          IN IF ~ShapeAsserts(ncols, n) THEN EncErr("AssertionError")
             ELSE [ok |-> TRUE, err |-> "none",
                   features_T |->
                      [channels |-> ncols, points |-> n,
                       cols |-> [k \in 1..Len(rows) |->
                                   [n |-> rows[k].n,
                                    vec |-> [c \in 1..ncols |-> norm(k, c)]]]]]

\* generate_point_cloud, lines 52-58: the targets are copied verbatim
Properties(row) == row.targets

\* ----------------------------------------------------- input patterns
\* a form-factor vector of length len, v at position hot (0: the last), else 0
AffVec(len, hot, v) ==
    [i \in 1..len |-> IF i = (IF hot = 0 THEN len ELSE hot) THEN v ELSE 0]

Sph == <<1, 1, 1>>

MkRow(id, nh, runs) ==
    [material_id |-> id, hkl_len |-> nh, runs |-> runs, max_r |-> 1,
     targets |-> <<id, id, id>>]

PointCounts == (NPoints - ShapeSlack)..(NPoints + ShapeSlack)
AffLens == (FormFactorChannels - ShapeSlack)..(FormFactorChannels + ShapeSlack)
HotPositions == {0, 1, 2}

\* the rows of material id whose pattern has two runs: one reflection, then
\* the rest
EncInputs(id) ==
    {MkRow(id, nh,
           <<[n |-> 1, sph |-> Sph, aff |-> AffVec(la, ha, va)],
             [n |-> nr - 1, sph |-> Sph, aff |-> AffVec(lb, hb, vb)]>>) :
        nh \in PointCounts, nr \in PointCounts, la \in AffLens, lb \in AffLens,
        ha \in HotPositions, hb \in HotPositions, va \in 0..MaxFF, vb \in 0..MaxFF}


\* ------------------------------------------------------ encoder alone
EInit ==
    /\ XIdle
    /\ GIdle
    /\ MIdle
    /\ e_pc = "input"
    /\ e_row \in EncInputs(1)
    /\ e_out = EncErr("none")

\* generate_point_cloud, lines 32-47, applied to the row
EEncode ==
    /\ e_pc = "input"
    /\ e_out' = Encode(e_row)
    /\ e_pc' = "encoded"
    /\ UNCHANGED <<e_row, xvars, gvars, mvars>>

ENext == EEncode

SpecEnc == EInit /\ [][ENext]_vars

\* ------------------------------------------------ the encoder: the claims
\* every reflection of the pattern has the full vector and the pattern has
\* exactly the reflections hkl counts
ExactShape(row) ==
    /\ row.hkl_len = NPoints
    /\ RunsTotal(row.runs) = NPoints
    /\ \A k \in DOMAIN row.runs :
          Len(row.runs[k].sph) + Len(row.runs[k].aff)
             = SphericalChannels + FormFactorChannels

InUnit(cell) == cell.den > 0 /\ 0 <= cell.num /\ cell.num <= cell.den

\* C5 (as claimed): in a persisted sample of a well-shaped pattern with a
\* non-zero maximum form factor, every form-factor channel (columns 3..96,
\* here 4..97) holds the input value divided by the greatest form-factor
\* value of the whole pattern, and lies in [0, 1].
C5_Claim ==
    (e_pc = "encoded" /\ e_out.ok /\ ExactShape(e_row)
        /\ GlobalMaxFF(e_row.runs) > 0)
    => \A k \in DOMAIN e_out.features_T.cols :
          \A c \in (SphericalChannels + 1)..(SphericalChannels + FormFactorChannels) :
             LET cell == e_out.features_T.cols[k].vec[c]
             IN /\ cell.den = GlobalMaxFF(e_row.runs)
                /\ InUnit(cell)


\* ======================================================================
\* Point-cloud stage: main and the pool workers
\* ======================================================================
\* ------------------------------------------------------------------ bounds
\* most rows in the intermediate file
MaxRows == 3
\* material ids are 1..MaxId
MaxId == 3

\* ------------------------------------------ program constants (main)
\* gen_training.py:81
nworkers == 12

\* the patterns a row of the intermediate file may hold: a well-shaped
\* one, one with too few reflections, and one with a single short
\* reflection vector
GenRowKinds == {"good", "short", "ragged"}

GenRow(id, kind) ==
    CASE kind = "good" ->
            MkRow(id, NPoints,
                  <<[n |-> NPoints, sph |-> Sph,
                     aff |-> AffVec(FormFactorChannels, 1, 1)]>>)
      [] kind = "short" ->
            MkRow(id, NPoints - ShapeSlack,
                  <<[n |-> NPoints - ShapeSlack, sph |-> Sph,
                     aff |-> AffVec(FormFactorChannels, 1, 1)]>>)
      [] kind = "ragged" ->
            MkRow(id, NPoints,
                  <<[n |-> NPoints - 1, sph |-> Sph,
                     aff |-> AffVec(FormFactorChannels, 1, 1)],
                    [n |-> 1, sph |-> Sph,
                     aff |-> AffVec(FormFactorChannels - ShapeSlack, 1, 1)]>>)

\* the state keeps a row as [material_id, kind]; its columns are those of
\* GenRow, and the encoder's result for it is computed once per pattern
GenEncoded ==
    [id \in 1..MaxId, kind \in GenRowKinds |-> Encode(GenRow(id, kind))]
EncodeRow(row) == GenEncoded[row.material_id, row.kind]
PropertiesRow(row) == Properties(GenRow(row.material_id, row.kind))

\* the features file as it is read back: the number of rows and columns of
\* the table and whether some field is empty (NaN is written as an empty
\* field)
FeaturesCsv(frame) ==
    [rows |-> frame.channels, cols |-> frame.points,
     nan |-> \E k \in DOMAIN frame.cols :
                \E c \in DOMAIN frame.cols[k].vec : frame.cols[k].vec[c] = NaN]

\* the id sequences of n rows, up to renaming of the ids: the first row has
\* id 1 and a row's id is at most one more than the ids before it
IdSeqs(n) ==
    {s \in [1..n -> 1..MaxId] :
        \A i \in 1..n : \A v \in 1..(s[i] - 1) : \E j \in 1..(i - 1) : s[j] = v}

GenInputs ==
    UNION {{[i \in 1..n |-> [material_id |-> ids[i], kind |-> kinds[i]]] :
               ids \in IdSeqs(n), kinds \in [1..n -> GenRowKinds]} :
           n \in 0..MaxRows}

\* what a previous run left in the destination directories: the artifact
\* pair of material 1
StaleFeaturesDir ==
    [exists |-> TRUE,
     files |-> (1 :> FeaturesCsv(Encode(GenRow(1, "good")).features_T))]
StaleTargetDir ==
    [exists |-> TRUE, files |-> (1 :> Properties(GenRow(1, "good")))]

GInit ==
    /\ XIdle
    /\ EIdle
    /\ MIdle
    /\ g_pc = "confirm"
    /\ g_err = "none"
    /\ inter_exists \in BOOLEAN
    /\ IF inter_exists THEN gen_rows \in GenInputs ELSE gen_rows = <<>>
    /\ \E d \in {<<NoDir, NoDir>>, <<EmptyDir, EmptyDir>>,
                 <<StaleTargetDir, StaleFeaturesDir>>} :
          target_dir = d[1] /\ features_dir = d[2]
    /\ gtask = NoTasks
    /\ pool_error = "none"
    /\ detected = FALSE
    /\ writes = <<>>

\* ------------------------------------------------------------ main actions
\* a reset that creates the directory only when it is absent
ResetDirKeepsFiles(dir) == IF dir.exists THEN dir ELSE EmptyDir
\* main, lines 68-75: an existing directory is removed with all its files
\* (shutil.rmtree), then os.mkdir creates it anew
ResetDir(dir) == EmptyDir

\* main, lines 64-66: the operator hits Enter
GConfirm ==
    /\ g_pc = "confirm"
    /\ g_pc' = "reset_target"
    /\ UNCHANGED <<g_err, inter_exists, gen_rows, target_dir, features_dir,
                   gtask, pool_error, detected, writes, xvars, evars, mvars>>

\* main, line 64: the operator hits Ctrl+c; input() raises KeyboardInterrupt
GInterrupt ==
    /\ g_pc = "confirm"
    /\ g_pc' = "cancelled"
    /\ g_err' = "KeyboardInterrupt"
    /\ UNCHANGED <<inter_exists, gen_rows, target_dir, features_dir,
                   gtask, pool_error, detected, writes, xvars, evars, mvars>>

\* main, lines 68-71: rmtree and mkdir of the target directory
GResetTarget ==
    /\ g_pc = "reset_target"
    /\ target_dir' = ResetDir(target_dir)
    /\ g_pc' = "reset_features"
    /\ UNCHANGED <<g_err, inter_exists, gen_rows, features_dir,
                   gtask, pool_error, detected, writes, xvars, evars, mvars>>

\* main, lines 72-75: rmtree and mkdir of the features directory
GResetFeatures ==
    /\ g_pc = "reset_features"
    /\ features_dir' = ResetDir(features_dir)
    /\ g_pc' = "read"
    /\ UNCHANGED <<g_err, inter_exists, gen_rows, target_dir,
                   gtask, pool_error, detected, writes, xvars, evars, mvars>>

\* main, line 78: read_csv raises FileNotFoundError when the file is absent
GRead ==
    /\ g_pc = "read"
    /\ IF inter_exists
          THEN g_pc' = "dispatch" /\ g_err' = g_err
          ELSE g_pc' = "crashed" /\ g_err' = "FileNotFoundError"
    /\ UNCHANGED <<inter_exists, gen_rows, target_dir, features_dir,
                   gtask, pool_error, detected, writes, xvars, evars, mvars>>

\* main, lines 84-87: the rows are split into W chunks, one task per chunk;
\* the task of an empty chunk has nothing to iterate over
StartPool(W) ==
    /\ g_pc = "dispatch"
    /\ gtask' = [w \in 1..W |->
                   LET chunk == array_split(gen_rows, W)[w]
                   IN [rows |-> chunk, i |-> 1, phase |-> "check",
                       st |-> IF chunk = <<>> THEN "done" ELSE "running",
                       err |-> "none"]]
    /\ g_pc' = "starmap"
    /\ UNCHANGED <<g_err, inter_exists, gen_rows, target_dir, features_dir,
                   pool_error, detected, writes, xvars, evars, mvars>>

\* main, lines 81-87: the pool has nworkers processes
GPoolStart == StartPool(nworkers)

\* ---------------------------------------------------------- worker actions
CurRow(w) == gtask[w].rows[gtask[w].i]

\* the task's exception is sent to the parent, which keeps the first one
TaskFails(w, e) ==
    /\ gtask' = [gtask EXCEPT ![w].st = "failed", ![w].err = e]
    /\ pool_error' = IF pool_error = "none" THEN e ELSE pool_error

\* generate_point_cloud, lines 25-47: the existence check, then the features
\* of the row are built, normalized and asserted.  An existing file runs
\* sys.exit(1); the module does not import sys, so NameError is raised.
GCheck(w) ==
    /\ g_pc = "starmap"
    /\ gtask[w].st = "running"
    /\ gtask[w].phase = "check"
    /\ IF CurRow(w).material_id \in DOMAIN features_dir.files
          THEN /\ TaskFails(w, "NameError")
               /\ detected' = TRUE
          ELSE /\ detected' = detected
               /\ IF EncodeRow(CurRow(w)).ok
                     THEN /\ gtask' = [gtask EXCEPT ![w].phase = "write_features"]
                          /\ pool_error' = pool_error
                     ELSE TaskFails(w, EncodeRow(CurRow(w)).err)
    /\ UNCHANGED <<g_pc, g_err, inter_exists, gen_rows, target_dir,
                   features_dir, writes, xvars, evars, mvars>>

\* generate_point_cloud, line 49: features_T.to_csv
GWriteFeatures(w) ==
    /\ g_pc = "starmap"
    /\ gtask[w].st = "running"
    /\ gtask[w].phase = "write_features"
    /\ LET id == CurRow(w).material_id
       IN /\ features_dir' =
                [features_dir EXCEPT
                    !.files = (id :> FeaturesCsv(EncodeRow(CurRow(w)).features_T))
                                 @@ @]
          /\ writes' = (id :> (IF id \in DOMAIN writes THEN writes[id] + 1 ELSE 1))
                          @@ writes
    /\ gtask' = [gtask EXCEPT ![w].phase = "write_target"]
    /\ UNCHANGED <<g_pc, g_err, inter_exists, gen_rows, target_dir,
                   pool_error, detected, xvars, evars, mvars>>

\* generate_point_cloud, lines 52-59: properties.to_csv, then the next row
GWriteTarget(w) ==
    /\ g_pc = "starmap"
    /\ gtask[w].st = "running"
    /\ gtask[w].phase = "write_target"
    /\ target_dir' =
          [target_dir EXCEPT
              !.files = (CurRow(w).material_id :> PropertiesRow(CurRow(w))) @@ @]
    /\ gtask' = [gtask EXCEPT
                    ![w].phase = "check",
                    ![w].i = @ + 1,
                    ![w].st = IF gtask[w].i + 1 > Len(gtask[w].rows)
                                 THEN "done" ELSE "running"]
    /\ UNCHANGED <<g_pc, g_err, inter_exists, gen_rows, features_dir,
                   pool_error, detected, writes, xvars, evars, mvars>>

\* a starmap that raises as soon as one task has failed
GStarmapReadyOnFirstError ==
    \/ \A w \in DOMAIN gtask : gtask[w].st # "running"
    \/ \E w \in DOMAIN gtask : gtask[w].st = "failed"
\* pool.starmap blocks until every task has completed or failed (the map
\* result is ready only once all its jobs are done, also after a failure)
GStarmapReady == \A w \in DOMAIN gtask : gtask[w].st # "running"

\* main, lines 87-89: every task returned; the pool is closed and joined
GStarmapReturn ==
    /\ g_pc = "starmap"
    /\ GStarmapReady
    /\ pool_error = "none"
    /\ g_pc' = "done"
    /\ UNCHANGED <<g_err, inter_exists, gen_rows, target_dir, features_dir,
                   gtask, pool_error, detected, writes, xvars, evars, mvars>>

\* main, line 87: starmap re-raises the first exception a task raised;
\* main does not catch it and the process ends
GStarmapRaise ==
    /\ g_pc = "starmap"
    /\ GStarmapReady
    /\ pool_error # "none"
    /\ g_pc' = "crashed"
    /\ g_err' = pool_error
    /\ UNCHANGED <<inter_exists, gen_rows, target_dir, features_dir,
                   gtask, pool_error, detected, writes, xvars, evars, mvars>>

GNext ==
    \/ GConfirm
    \/ GInterrupt
    \/ GResetTarget
    \/ GResetFeatures
    \/ GRead
    \/ GPoolStart
    \/ \E w \in DOMAIN gtask : GCheck(w)
    \/ \E w \in DOMAIN gtask : GWriteFeatures(w)
    \/ \E w \in DOMAIN gtask : GWriteTarget(w)
    \/ GStarmapReturn
    \/ GStarmapRaise

SpecGen == GInit /\ [][GNext]_vars

\* ---------------------------------------- point-cloud stage: the claims
RunEnded == g_pc \in {"done", "crashed"}

HasDuplicateIds ==
    \E i, j \in DOMAIN gen_rows :
        i < j /\ gen_rows[i].material_id = gen_rows[j].material_id

AllGood == \A i \in DOMAIN gen_rows : gen_rows[i].kind = "good"

\* C2 (as claimed): when two rows of a well-shaped input carry the same id
\* the run ends with the duplicate detected and the process failed, and no
\* id's features file is written more than once.
C2_Claim ==
    /\ (RunEnded /\ inter_exists /\ AllGood /\ HasDuplicateIds)
          => (detected /\ g_pc = "crashed" /\ g_err = "NameError")
    /\ \A id \in DOMAIN writes : writes[id] <= 1

\* C3 (as claimed): every features file on disk has 97 rows and 512
\* columns, none holds a padded field, and a row that is being or has been
\* written has exactly 512 reflections of exactly 97 entries each.
C3_Claim ==
    /\ \A id \in DOMAIN features_dir.files :
          /\ features_dir.files[id].rows = SphericalChannels + FormFactorChannels
          /\ features_dir.files[id].cols = NPoints
          /\ ~features_dir.files[id].nan
    /\ \A w \in DOMAIN gtask :
          (gtask[w].st = "running" /\ gtask[w].phase # "check")
             => ExactShape(GenRow(CurRow(w).material_id, CurRow(w).kind))

\* C4: artifact-pair atomicity. When the run has ended, normally or by a
\* worker's error, the ids with a features file are the ids with a targets
\* file.
C4_PairAtomic ==
    RunEnded => DOMAIN features_dir.files = DOMAIN target_dir.files

\* C4 witness: a run aborted by a worker's error that left artifacts, while
\* another worker wrote its pair
C4_Witness ==
    /\ g_pc = "crashed"
    /\ pool_error \in {"AssertionError", "NameError"}
    /\ DOMAIN features_dir.files # {}
    /\ DOMAIN features_dir.files = DOMAIN target_dir.files

\* C7 (as claimed): with the intermediate file absent no step of the run
\* changes a destination directory or starts a worker.
C7_Claim ==
    [][(g_pc # "idle" /\ ~inter_exists)
          => (target_dir' = target_dir /\ features_dir' = features_dir
              /\ gtask' = gtask)]_vars

\* C10 (as claimed): once a worker has detected an existing artifact, no
\* step writes a features or targets artifact.
C10_Claim ==
    [][detected => (features_dir' = features_dir /\ target_dir' = target_dir)]_vars

\* no worker has performed an existence check yet
NoCheckYet ==
    \A w \in DOMAIN gtask :
        gtask[w].i = 1 /\ gtask[w].phase = "check" /\ gtask[w].st # "failed"

\* the operator has not confirmed: the prompt is open or was interrupted
Unconfirmed == g_pc \in {"confirm", "cancelled"}

\* the reset is over: the run reads its input, runs its workers or has ended
\* after the reset
ResetOver == g_pc \in {"read", "dispatch", "starmap", "done", "crashed"}

\* every artifact on disk was written by a worker of this run
C11_OnlyOwnArtifacts ==
    ResetOver =>
        /\ DOMAIN features_dir.files \subseteq DOMAIN writes
        /\ DOMAIN target_dir.files \subseteq DOMAIN writes
        /\ (detected => writes # <<>>)

\* when the workers are about to perform their first existence check both
\* directories exist and are empty
C11_EmptyAtFirstCheck ==
    (g_pc \in {"dispatch", "starmap"} /\ NoCheckYet)
        => (target_dir = EmptyDir /\ features_dir = EmptyDir)

\* no step taken before the confirmation changes a destination directory
C11_NoDeleteBeforeConfirm ==
    [][Unconfirmed =>
          (target_dir' = target_dir /\ features_dir' = features_dir)]_vars

\* C11: run-level reset. No destination directory changes before the
\* operator has confirmed; when the first worker performs its first existence
\* check both directories exist and are empty; and after the reset every
\* artifact on disk, and so every artifact that triggers the duplicate
\* error, was written by the current run.
C11_RunLevelReset ==
    /\ [](C11_OnlyOwnArtifacts /\ C11_EmptyAtFirstCheck)
    /\ C11_NoDeleteBeforeConfirm

\* C11 witness: a confirmed run whose input holds the id a previous run
\* persisted; the targets directory has been reset, the features directory
\* still holds the previous run's artifact and is reset next
C11_Witness ==
    /\ g_pc = "reset_features"
    /\ target_dir = EmptyDir
    /\ features_dir = StaleFeaturesDir
    /\ \E i \in DOMAIN gen_rows :
          gen_rows[i].material_id \in DOMAIN StaleFeaturesDir.files

\* ------------------------------- point-cloud stage with any number of workers
\* the worker counts of the variant: main with line 81 set to 1..MaxWorkers,
\* and the nworkers of the source
MaxWorkers == 3
WorkerCounts == 1..MaxWorkers \cup {nworkers}

\* main, lines 81-87 with nworkers = W
GPoolStartAny == \E W \in WorkerCounts : StartPool(W)

\* the inputs whose patterns all have the required shape (ids may repeat)
GInitGood == GInit /\ AllGood

GNextAny ==
    \/ GConfirm
    \/ GInterrupt
    \/ GResetTarget
    \/ GResetFeatures
    \/ GRead
    \/ GPoolStartAny
    \/ \E w \in DOMAIN gtask : GCheck(w)
    \/ \E w \in DOMAIN gtask : GWriteFeatures(w)
    \/ \E w \in DOMAIN gtask : GWriteTarget(w)
    \/ GStarmapReturn
    \/ GStarmapRaise

SpecGenAny == GInitGood /\ [][GNextAny]_vars

InputIds == {gen_rows[i].material_id : i \in DOMAIN gen_rows}

\* C13: end-to-end completeness. A completed run over N well-shaped rows
\* with pairwise distinct ids, with any number of workers, leaves exactly N
\* feature artifacts and N target artifacts, both keyed by the input ids.
C13_Complete ==
    (g_pc = "done" /\ AllGood /\ ~HasDuplicateIds) =>
        /\ DOMAIN features_dir.files = InputIds
        /\ DOMAIN target_dir.files = InputIds
        /\ Cardinality(DOMAIN features_dir.files) = Len(gen_rows)
        /\ Cardinality(DOMAIN target_dir.files) = Len(gen_rows)

\* C13 witness: a completed run of two workers over three rows, one worker
\* having processed two rows
C13_Witness ==
    /\ g_pc = "done"
    /\ ~HasDuplicateIds
    /\ Len(gen_rows) = 3
    /\ Len(gtask) = 2
    /\ \E w \in DOMAIN gtask : Len(gtask[w].rows) = 2
    /\ Cardinality(DOMAIN target_dir.files) = Len(gen_rows)

\* ------------------------------------------------ the runs of both programs
\* a run of compute_xrd.py or a run of gen_training.py
RunInit == XInit \/ GInit
RunNext == XNext \/ GNext

\* the steps of gen_training.py the interpreter and the pool's processes
\* take on their own; the answer to the prompt is the operator's
GProgram ==
    \/ GResetTarget
    \/ GResetFeatures
    \/ GRead
    \/ GPoolStart
    \/ \E w \in DOMAIN gtask : GCheck(w)
    \/ \E w \in DOMAIN gtask : GWriteFeatures(w)
    \/ \E w \in DOMAIN gtask : GWriteTarget(w)
    \/ GStarmapReturn
    \/ GStarmapRaise

\* main and the worker processes keep running while they have a step to
\* take; nothing is assumed about when the operator answers the prompt
SpecRun ==
    RunInit /\ [][RunNext]_vars /\ WF_vars(XNext) /\ WF_vars(GProgram)

\* the exit status of the interpreter: 0 when main returns, 1 after
\* sys.exit(1) and after an uncaught exception
XExitCode == IF x_pc = "done" THEN 0 ELSE 1
GExitCode == IF g_pc = "done" THEN 0 ELSE 1

XEnded == x_pc \in {"done", "crashed", "exited"}

\* a worker raised an error while computing or encoding a record
XWorkerFailed == x_err = "WorkerError"
GShapeError ==
    \E w \in DOMAIN gtask :
        gtask[w].err \in {"AssertionError", "ValueError", "IndexError"}

\* the exit codes of gen_training.py: 0 exactly when the intermediate file
\* was present, no duplicate id was detected and no worker raised a shape
\* or encoding error
C12_GenExitCodes ==
    RunEnded => (GExitCode = 0 <=> (inter_exists /\ ~detected /\ ~GShapeError))

\* the exit codes of compute_xrd.py: 0 exactly when the catalog was present
\* and no worker raised an error
C12_XrdExitCodes ==
    XEnded => (XExitCode = 0 <=> (catalog_exists /\ ~XWorkerFailed))

\* every run ends: compute_xrd.py from its start, gen_training.py from the
\* operator's confirmation
C12_Terminates ==
    /\ (x_pc = "start") ~> XEnded
    /\ (g_pc = "reset_target") ~> RunEnded

\* a run in which a worker has failed ends with the error
C12_NoHang ==
    /\ (x_pc = "starmap" /\ \E w \in DOMAIN task : task[w].st = "failed")
          ~> (x_pc = "crashed")
    /\ (g_pc = "starmap" /\ pool_error # "none") ~> (g_pc = "crashed")

\* the part of C12 that holds of both programs
C12_Liveness == C12_Terminates /\ C12_NoHang

\* C12 (as claimed): every run terminates; it ends with exit code 0 exactly
\* when no required input file is missing, no duplicate artifact id is
\* detected and no shape or encoding error occurs in a worker, and with a
\* non-zero exit code otherwise; it never hangs waiting for a failed worker.
C12_Claim ==
    /\ [](C12_XrdExitCodes /\ C12_GenExitCodes)
    /\ C12_Terminates
    /\ C12_NoHang

\* ===================================================== main.py: Normalizer
\* the target values, means and standard deviations are the integers
\* -MaxAbs..MaxAbs; a normalized value is a rational
MaxAbs == 2
Values == (0 - MaxAbs)..MaxAbs

Tasks == {"classification", "regression"}

\* Normalizer.__init__, lines 406-408: the mean and the standard deviation
\* of the tensor
Normalizer(tensor_mean, tensor_std) == [mean |-> tensor_mean, std |-> tensor_std]

\* Normalizer.load_state_dict, lines 420-422
load_state_dict(self, state_dict) ==
    [self EXCEPT !.mean = state_dict.mean, !.std = state_dict.std]

\* Normalizer.norm, lines 410-411: (tensor - self.mean) / self.std; the
\* float division by 0 gives inf or nan
norm(self, tensor) == [num |-> tensor - self.mean, den |-> self.std]

\* Normalizer.denorm, lines 413-414: normed_tensor + self.std + self.mean
denorm(self, normed_tensor) ==
    [num |-> normed_tensor.num + (self.std + self.mean) * normed_tensor.den,
     den |-> normed_tensor.den]

\* two finite rationals are the same number
RatEq(a, b) == a.den # 0 /\ b.den # 0 /\ a.num * b.den = b.num * a.den

\* main, line 95: normalizer = Normalizer(torch.zeros(2))
NInit ==
    /\ XIdle
    /\ GIdle
    /\ EIdle
    /\ TIdle
    /\ n_pc = "load_default"
    /\ n_task \in Tasks
    /\ normalize_target \in BOOLEAN
    /\ normalizer = Normalizer(0, 0)
    /\ target = 0
    /\ target_normed = Rat(0)
    /\ n_restored = Rat(0)

\* main, line 96: the default state is loaded
NLoadDefault ==
    /\ n_pc = "load_default"
    /\ normalizer' = load_state_dict(normalizer, [mean |-> 0, std |-> 1])
    /\ n_pc' = "fit"
    /\ UNCHANGED <<n_task, normalize_target, target, target_normed, n_restored,
                   xvars, gvars, evars, tvars>>

\* main, lines 97-100: a regression run with target normalization builds
\* the normalizer from a sample of the targets
NFit ==
    /\ n_pc = "fit"
    /\ IF n_task = "regression" /\ normalize_target
          THEN \E m \in Values, s \in 0..MaxAbs : normalizer' = Normalizer(m, s)
          ELSE normalizer' = normalizer
    /\ n_pc' = "batch"
    /\ UNCHANGED <<n_task, normalize_target, target, target_normed, n_restored,
                   xvars, gvars, evars, tvars>>

\* train and validate, lines 238-241 and 321-324: the batch's target is
\* normalized in a regression run and cast to a label otherwise
NNorm ==
    /\ n_pc = "batch"
    /\ \E x \in Values :
          /\ target' = x
          /\ IF n_task = "classification"
                THEN target_normed' = Rat(x) /\ n_pc' = "labelled"
                ELSE target_normed' = norm(normalizer, x) /\ n_pc' = "normed"
    /\ UNCHANGED <<n_task, normalize_target, normalizer, n_restored,
                   xvars, gvars, evars, tvars>>

\* train and validate, lines 263 and 352-356: a regression run applies
\* denorm to the model's output; the output taken here is the normalized
\* target itself (a perfect prediction)
NDenorm ==
    /\ n_pc = "normed"
    /\ n_restored' = denorm(normalizer, target_normed)
    /\ n_pc' = "denormed"
    /\ UNCHANGED <<n_task, normalize_target, normalizer, target, target_normed,
                   xvars, gvars, evars, tvars>>

NNext == NLoadDefault \/ NFit \/ NNorm \/ NDenorm

SpecNorm == NInit /\ [][NNext]_vars

\* C14 (as claimed): for every normalizer state with std # 0, the default
\* state mean = 0, std = 1 included, and every target value x,
\* denorm(norm(x)) = x.
C14_Claim ==
    (n_pc = "denormed" /\ normalizer.std # 0) => RatEq(n_restored, Rat(target))

\* ================================================== main.py: training loop
\* the most epochs of a run, and the largest finite validation metric; the
\* finite metrics are 0..MaxMetric (for an AUC, in units of 1 / MaxMetric)
MaxEpochs == 3
MaxMetric == 2

\* a validation MAE that is nan (the training has diverged)
NaNMetric == [nan |-> TRUE, v |-> 0]

\* main, line 81: best_mae = 1E10, a value above every finite MAE of the model
HugeMae == MaxMetric + 1

\* validate, lines 374-379: the average AUC of a classification run, the
\* average MAE of a regression run
Metrics(tsk) ==
    IF tsk = "classification"
       THEN {Metric(v) : v \in 0..MaxMetric}
       ELSE {Metric(v) : v \in 0..MaxMetric} \cup {NaNMetric}

\* Python's a < b on floats: False when either is nan
FloatLess(a, b) == ~a.nan /\ ~b.nan /\ a.v < b.v
\* Python's max(a, b) and min(a, b): a unless b is greater, resp. smaller
FloatMax(a, b) == IF FloatLess(a, b) THEN b ELSE a
FloatMin(a, b) == IF FloatLess(b, a) THEN b ELSE a

\* lines 78-81: the initial best_mae
BestMaeInit(tsk) ==
    IF tsk = "classification" THEN Metric(0) ELSE Metric(HugeMae)

\* a checkpoint file written by the run, holding the model state of an epoch
SavedState(e) == [exists |-> TRUE, run |-> "this", epoch |-> e]
\* a checkpoint file an earlier run left for the same target
StaleFile == [exists |-> TRUE, run |-> "earlier", epoch |-> 0]

\* a run started without --resume: start_epoch is 0, and the checkpoint
\* directory is absent or holds the files of an earlier run
TInit ==
    /\ XIdle
    /\ GIdle
    /\ EIdle
    /\ NIdle
    /\ t_pc = "loop"
    /\ t_task \in Tasks
    /\ epochs \in 1..MaxEpochs
    /\ epoch = 0
    /\ best_mae = BestMaeInit(t_task)
    /\ mae = Metric(0)
    /\ is_best = FALSE
    /\ checkpoint_file \in {NoFile, StaleFile}
    /\ best_file \in {NoFile, StaleFile}
    /\ best_model = NoFile
    /\ seen = <<>>

\* main, lines 170-177: one epoch of training, then validate returns the
\* epoch's metric
TValidate ==
    /\ t_pc = "loop"
    /\ epoch < epochs
    /\ \E m \in Metrics(t_task) :
          /\ mae' = m
          /\ seen' = Append(seen, m)
    /\ t_pc' = "remember"
    /\ UNCHANGED <<t_task, epochs, epoch, best_mae, is_best, checkpoint_file,
                   best_file, best_model, xvars, gvars, evars, nvars>>

\* main, lines 179-185
TRemember ==
    /\ t_pc = "remember"
    /\ IF t_task = "classification"
          THEN /\ is_best' = FloatLess(best_mae, mae)
               /\ best_mae' = FloatMax(mae, best_mae)
          ELSE /\ is_best' = FloatLess(mae, best_mae)
               /\ best_mae' = FloatMin(mae, best_mae)
    /\ t_pc' = "save"
    /\ UNCHANGED <<t_task, epochs, epoch, mae, checkpoint_file, best_file,
                   best_model, seen, xvars, gvars, evars, nvars>>

\* main, lines 187-194, and save_checkpoint, lines 382-389: the state is
\* saved to the checkpoint file, which is copied to the best-model file when
\* is_best; then the next epoch
TSaveCheckpoint ==
    /\ t_pc = "save"
    /\ checkpoint_file' = SavedState(epoch)
    /\ best_file' = IF is_best THEN checkpoint_file' ELSE best_file
    /\ epoch' = epoch + 1
    /\ t_pc' = "loop"
    /\ UNCHANGED <<t_task, epochs, best_mae, mae, is_best, best_model, seen,
                   xvars, gvars, evars, nvars>>

\* main, lines 196-199, and load_best_model, lines 392-401: after the last
\* epoch the best-model file is loaded, or the process exits when there is
\* none
TLoadBest ==
    /\ t_pc = "loop"
    /\ epoch >= epochs
    /\ IF best_file.exists
          THEN best_model' = best_file /\ t_pc' = "test"
          ELSE best_model' = best_model /\ t_pc' = "exited"
    /\ UNCHANGED <<t_task, epochs, epoch, best_mae, mae, is_best,
                   checkpoint_file, best_file, seen, xvars, gvars, evars,
                   nvars>>

TNext == TValidate \/ TRemember \/ TSaveCheckpoint \/ TLoadBest

SpecTrain == TInit /\ [][TNext]_vars

\* the best of the metrics seen so far: the greatest AUC, the smallest MAE
\* (of the finite ones; nan when every metric was nan)
FiniteSeen == {seen[i].v : i \in {j \in DOMAIN seen : ~seen[j].nan}}
BestSeen ==
    IF FiniteSeen = {} THEN NaNMetric
    ELSE IF t_task = "classification"
            THEN Metric(CHOOSE v \in FiniteSeen : \A u \in FiniteSeen : u <= v)
            ELSE Metric(CHOOSE v \in FiniteSeen : \A u \in FiniteSeen : v <= u)

\* the file holds the model state of an epoch of this run that achieved the
\* best metric
HoldsBest(file) ==
    /\ file.exists
    /\ file.run = "this"
    /\ seen[file.epoch + 1] = BestSeen

\* C15 (as claimed): after each epoch best_mae is the best metric seen so
\* far and the best-model file holds the model state of an epoch of this
\* run that achieved it; the model loaded for the test is that model, never
\* one of an earlier run and never missing.
C15_Claim ==
    /\ (t_pc = "loop" /\ epoch >= 1) => (best_mae = BestSeen /\ HoldsBest(best_file))
    /\ t_pc = "test" => HoldsBest(best_model)
    /\ t_pc # "exited"

====
